---- MODULE Spec2Model ----
(***************************************************************************)
(* State-machine model of src/main.js (3d-oil-tanker): the input handlers, *)
(* the asset loader callbacks and the per-frame update (animate -> render, *)
(* updatePhysics) with its camera-mode state machine.                      *)
(*                                                                         *)
(* Numbers.  The source computes with IEEE doubles; the model computes     *)
(* with exact integers on fixed grids, rounding to the nearest grid point  *)
(* where the source multiplies by a non-integer factor:                    *)
(*   speed, lengths     1 unit = 0.005   (maxSpeed 2.0 = 400 units)        *)
(*   angles, yaw rate   1 unit = 1.25e-6 rad (maxRotationSpeed = 16000)    *)
(*   time               1 unit = 1 ms                                      *)
(* The speed grid is half of the smallest speed step (deceleration 0.01),  *)
(* so speeds that are not a multiple of the step are representable.        *)
(***************************************************************************)
EXTENDS Integers, Sequences, FiniteSets, TLC

\* ------------------------------------------------------------- bounds
\* calls of animate in a run of Spec
MaxFrames == 1
\* latest clock value (ms) at which the clock still advances
MaxNow == 1500
\* clock advance (ms) of one Tick
ClockStep == 750

\* ------------------------------------------------- shipStats constants
maxSpeed == 400
acceleration == 4
deceleration == 2
maxRotationSpeed == 16000
rotationAcceleration == 400
rotationDeceleration == 400
\* rotationDamping 0.95, in percent
rotationDamping == 95
\* the literal 0.0001 below which the yaw rate snaps to zero
rotationEpsilon == 80
\* transition duration (ms)
duration == 1500

\* ------------------------------------------------------------ numerics
Abs(x) == IF x < 0 THEN -x ELSE x

Max(a, b) == IF a > b THEN a ELSE b

Min(a, b) == IF a < b THEN a ELSE b

\* a / b rounded to the nearest integer, halves away from zero (b > 0)
Round(a, b) == IF a >= 0 THEN (2 * a + b) \div (2 * b) ELSE -((2 * (-a) + b) \div (2 * b))

\* 1000 * sin(x) for x in milliradians, 0 <= x <= 3142 (Bhaskara's rational form)
SinHalfTurn(x) ==
    LET p == x * (3142 - x)
    IN  (16 * p) \div ((49360820 - 4 * p) \div 1000)

\* 1000 * sin of an angle given in angle units
SinM(a) ==
    LET m == Round(a, 800) % 6284
    IN  IF m <= 3142 THEN SinHalfTurn(m) ELSE -SinHalfTurn(m - 3142)

\* 1000 * cos of an angle given in angle units
CosM(a) == SinM(a + 1256800)

\* THREE.Vector3 helpers on <<x, y, z>>
Lerp(v, t, num, den) ==
    << v[1] + Round((t[1] - v[1]) * num, den),
       v[2] + Round((t[2] - v[2]) * num, den),
       v[3] + Round((t[3] - v[3]) * num, den) >>

\* Vector3.applyMatrix4 with the world matrix of a group at m.pos turned by m.yaw
ApplyMatrix4(off, m) ==
    << m.pos[1] + Round(off[1] * CosM(m.yaw) + off[3] * SinM(m.yaw), 1000),
       m.pos[2] + off[2],
       m.pos[3] + Round(off[3] * CosM(m.yaw) - off[1] * SinM(m.yaw), 1000) >>

\* Object3D.translateZ(d) of a group turned by yaw y
TranslateZ(p, y, d) ==
    << p[1] + Round(d * SinM(y), 1000), p[2], p[3] + Round(d * CosM(y), 1000) >>

\* ------------------------------------------------------------- state
VARIABLES
    ship,                \* "undefined" until the loader's success callback sets it
    loader,              \* "pending", "loaded" or "error": which loader callback has run
    loadingHidden,       \* the #loading element has display none
    speed,               \* shipStats.speed
    rotationSpeed,       \* shipStats.rotationSpeed
    keys,                \* keys.forward, .backward, .left, .right
    yaw,                 \* shipGroup.rotation.y
    position,            \* shipGroup.position
    matrixWorld,         \* shipGroup.matrixWorld, refreshed by render()
    roll,                \* ship.rotation.z
    cameraPos,           \* camera.position
    cameraLookAt,        \* the point the camera was last turned to
    controlsEnabled,     \* controls.enabled
    controlsTarget,      \* controls.target
    mouseLeft,           \* controls.mouseButtons.LEFT
    toggleChecked,       \* #camera-toggle .checked
    winDefined,          \* the five window.* transition fields are no longer undefined
    wasFollowMode,       \* window.wasFollowMode
    isTransitioning,     \* window.isTransitioning
    transitionStartTime, \* window.transitionStartTime
    transitionStartPos,  \* window.transitionStartPos
    transitionTargetPos, \* window.transitionTargetPos
    now,                 \* performance.now()
    active,              \* ids of the on-screen keys carrying class "active"
    cursor,              \* document.body.style.cursor
    panHintDisabled,     \* #pan-hint carries class "disabled-hint"
    speedVal,            \* #speed-val text, in tenths
    headingVal,          \* #heading-val text, in degrees
    frames,              \* history: calls of animate counted by the specification
    speed0,              \* history: speed when the observation started
    held                 \* history: keys and on-screen keys pressed and not yet released

vessel == <<speed, rotationSpeed, yaw, position, roll>>

cameraState ==
    <<cameraPos, cameraLookAt, controlsEnabled, controlsTarget, winDefined, wasFollowMode,
      isTransitioning, transitionStartTime, transitionStartPos, transitionTargetPos>>

readouts == <<speedVal, headingVal>>

loading == <<ship, loader, loadingHidden>>

history == <<frames, speed0, held>>

vars ==
    <<ship, loader, loadingHidden, speed, rotationSpeed, keys, yaw, position, matrixWorld,
      roll, cameraPos, cameraLookAt, controlsEnabled, controlsTarget, mouseLeft,
      toggleChecked, winDefined, wasFollowMode, isTransitioning, transitionStartTime,
      transitionStartPos, transitionTargetPos, now, active, cursor, panHintDisabled,
      speedVal, headingVal, frames, speed0, held>>

Actions == {"forward", "backward", "left", "right"}

\* keyMap and the switch of the keyboard handlers: e.code -> flag
codeAction ==
    [ArrowUp |-> "forward", KeyW |-> "forward", ArrowDown |-> "backward", KeyS |-> "backward",
     ArrowLeft |-> "left", KeyA |-> "left", ArrowRight |-> "right", KeyD |-> "right"]

DirectionCodes == DOMAIN codeAction

\* onScreenKeys, inverted: flag -> element id
actionElement ==
    [forward |-> "key-w", backward |-> "key-s", left |-> "key-a", right |-> "key-d"]

noKeys == [forward |-> FALSE, backward |-> FALSE, left |-> FALSE, right |-> FALSE]

\* ------------------------------------------- updatePhysics, the vessel
\* Drag without the final "stop completely" snap
DragNoSnap(s) ==
    LET s1 == IF s > 0 THEN s - deceleration ELSE s
    IN  IF s1 < 0 THEN s1 + deceleration ELSE s1

\* natural drag and the snap to zero
Drag(s) ==
    LET s1 == IF s > 0 THEN s - deceleration ELSE s
        s2 == IF s1 < 0 THEN s1 + deceleration ELSE s1
    IN  IF Abs(s2) < deceleration THEN 0 ELSE s2
\* Longitudinal with the backward flag tested first
LongitudinalBackwardFirst(s, k) ==
    IF k.backward THEN s - acceleration
    ELSE IF k.forward THEN s + acceleration
    ELSE Drag(s)

\* Longitudinal with the forward flag adding the drag step instead of the thrust step
LongitudinalDragStep(s, k) ==
    IF k.forward THEN s + deceleration
    ELSE IF k.backward THEN s - acceleration
    ELSE Drag(s)

\* acceleration / deceleration from the flags
Longitudinal(s, k) ==
    IF k.forward THEN s + acceleration
    ELSE IF k.backward THEN s - acceleration
    ELSE Drag(s)

\* ClampSpeed with the reverse limit as large as the forward limit
ClampSpeedSymmetric(s) == Max(Min(s, maxSpeed), -maxSpeed)

ClampSpeed(s) == Max(Min(s, maxSpeed), -(maxSpeed \div 2))

\* turnInfluence without its floor
turnInfluenceNoFloor(s) == (Abs(s) * 10000) \div maxSpeed

\* Math.max(speedFactor, 0.1), in 1/10000
turnInfluence(s) == Max((Abs(s) * 10000) \div maxSpeed, 1000)

direction(s) == IF s >= 0 THEN 1 ELSE -1

\* Drift without the snap below 0.0001
DriftNoSnap(r) ==
    LET r1 == IF r > 0 THEN r - rotationDeceleration ELSE r
        r2 == IF r1 < 0 THEN r1 + rotationDeceleration ELSE r1
    IN  Round(r2 * rotationDamping, 100)

\* drift, damping and the snap of the yaw rate
Drift(r) ==
    LET r1 == IF r > 0 THEN r - rotationDeceleration ELSE r
        r2 == IF r1 < 0 THEN r1 + rotationDeceleration ELSE r1
        r3 == Round(r2 * rotationDamping, 100)
    IN  IF Abs(r3) < rotationEpsilon THEN 0 ELSE r3

\* yaw rate from the flags and the speed of this frame
Turning(r, s, k) ==
    IF k.left THEN r + (rotationAcceleration * turnInfluence(s) * direction(s)) \div 10000
    ELSE IF k.right THEN r - (rotationAcceleration * turnInfluence(s) * direction(s)) \div 10000
    ELSE Drift(r)

\* ClampRotation with the upper limit forgotten
ClampRotationLowerOnly(r) == Max(r, -maxRotationSpeed)

ClampRotation(r) == Max(Min(r, maxRotationSpeed), -maxRotationSpeed)

NextSpeed(s, k) == ClampSpeed(Longitudinal(s, k))
\* NextRotationSpeed that steers by the speed the frame started with
NextRotationSpeedStale(r, s, k) == ClampRotation(Turning(r, s, k))

NextRotationSpeed(r, s, k) == ClampRotation(Turning(r, NextSpeed(s, k), k))

\* THREE.MathUtils.lerp(ship.rotation.z, rotationSpeed * 10, 0.05)
NextRoll(z, r) == z + Round((r * 10 - z) * 5, 100)

\* (Math.abs(speed) * 100).toFixed(1), in tenths
SpeedText(s) == Abs(s) * 5

\* (Math.abs(yaw * 180 / PI) % 360).toFixed(0)
HeadingText(y) == Round(Abs(y) % 5026548, 13963)

\* ------------------------------------------- updatePhysics, the camera
\* new THREE.Vector3(0, 30, 80)
relativeCameraOffset == <<0, 6000, 16000>>

\* new THREE.Vector3(0, 60, 150)
relativeTargetOffset == <<0, 12000, 30000>>

\* Math.min(elapsed / duration, 1.0), in 1/1000
Progress(elapsed) == Min((elapsed * 1000) \div duration, 1000)

\* 1 - Math.pow(1 - progress, 3), in 1/1000
Ease(p) == 1000 - Round((1000 - p) * (1000 - p) * (1000 - p), 1000000)

\* Vector3.lerpVectors(v1, v2, alpha), alpha in 1/1000
LerpVectors(v1, v2, alpha) == Lerp(v1, v2, alpha, 1000)

\* the camera fields as one record
Camera ==
    [cameraPos |-> cameraPos, cameraLookAt |-> cameraLookAt,
     controlsEnabled |-> controlsEnabled, controlsTarget |-> controlsTarget,
     wasFollowMode |-> wasFollowMode, isTransitioning |-> isTransitioning,
     transitionStartTime |-> transitionStartTime,
     transitionStartPos |-> transitionStartPos,
     transitionTargetPos |-> transitionTargetPos]
\* FollowBranch that puts the camera on the follow offset at once, without easing
FollowBranchSnap(c, mw, shipPos) ==
    [c EXCEPT !.isTransitioning = FALSE,
              !.wasFollowMode = TRUE,
              !.controlsEnabled = FALSE,
              !.cameraPos = ApplyMatrix4(relativeCameraOffset, mw),
              !.cameraLookAt = shipPos]

\* FollowBranch that leaves a running transition running
FollowBranchKeepTransition(c, mw, shipPos) ==
    [c EXCEPT !.wasFollowMode = TRUE,
              !.controlsEnabled = FALSE,
              !.cameraPos = Lerp(c.cameraPos, ApplyMatrix4(relativeCameraOffset, mw), 5, 100),
              !.cameraLookAt = shipPos]

\* the isFollowMode branch
FollowBranch(c, mw, shipPos) ==
    [c EXCEPT !.isTransitioning = FALSE,
              !.wasFollowMode = TRUE,
              !.controlsEnabled = FALSE,
              !.cameraPos = Lerp(c.cameraPos, ApplyMatrix4(relativeCameraOffset, mw), 5, 100),
              !.cameraLookAt = shipPos]
\* EnterTransition that does not consult the wasFollowMode latch
EnterTransitionAlways(c, mw, t) ==
    IF ~c.isTransitioning
    THEN [c EXCEPT !.wasFollowMode = FALSE,
                   !.isTransitioning = TRUE,
                   !.transitionStartTime = t,
                   !.transitionStartPos = c.cameraPos,
                   !.transitionTargetPos = ApplyMatrix4(relativeTargetOffset, mw)]
    ELSE c

\* "if we just switched to free mode": the entry into the transition
EnterTransition(c, mw, t) ==
    IF c.wasFollowMode
    THEN [c EXCEPT !.wasFollowMode = FALSE,
                   !.isTransitioning = TRUE,
                   !.transitionStartTime = t,
                   !.transitionStartPos = c.cameraPos,
                   !.transitionTargetPos = ApplyMatrix4(relativeTargetOffset, mw)]
    ELSE c

\* TransitionBranch that ends only when progress exceeds 1.0
TransitionBranchStrict(c, shipPos, t) ==
    LET progress == Progress(t - c.transitionStartTime)
        moved == [c EXCEPT !.cameraPos = LerpVectors(c.transitionStartPos,
                                                     c.transitionTargetPos, Ease(progress)),
                           !.cameraLookAt = shipPos]
    IN  IF progress > 1000
        THEN [moved EXCEPT !.isTransitioning = FALSE, !.controlsTarget = shipPos]
        ELSE moved

\* one frame of the running transition
TransitionBranch(c, shipPos, t) ==
    LET progress == Progress(t - c.transitionStartTime)
        moved == [c EXCEPT !.cameraPos = LerpVectors(c.transitionStartPos,
                                                     c.transitionTargetPos, Ease(progress)),
                           !.cameraLookAt = shipPos]
    IN  IF progress >= 1000
        THEN [moved EXCEPT !.isTransitioning = FALSE, !.controlsTarget = shipPos]
        ELSE moved

\* manual controls: controls.enabled = true; controls.update() with no pointer input
\* keeps the camera where it is and turns it to controls.target
FreeBranch(c) == [c EXCEPT !.controlsEnabled = TRUE, !.cameraLookAt = c.controlsTarget]
\* FreeModeBranch that re-evaluates the target position in every transition frame
FreeModeBranchRetarget(c, mw, shipPos, t) ==
    LET e == EnterTransition(c, mw, t)
        f == [e EXCEPT !.transitionTargetPos = ApplyMatrix4(relativeTargetOffset, mw)]
    IN  IF e.isTransitioning THEN TransitionBranch(f, shipPos, t) ELSE FreeBranch(e)

\* the not-follow branch
FreeModeBranch(c, mw, shipPos, t) ==
    LET e == EnterTransition(c, mw, t)
    IN  IF e.isTransitioning THEN TransitionBranch(e, shipPos, t) ELSE FreeBranch(e)

\* the camera logic of one frame
CameraStep(c, isFollowMode, mw, shipPos, t) ==
    IF isFollowMode THEN FollowBranch(c, mw, shipPos) ELSE FreeModeBranch(c, mw, shipPos, t)

\* ------------------------------------------------------ construction
\* the scene, camera, controls and page as the module's top-level code leaves them
SceneConstruction ==
    /\ yaw = 0
    /\ position = <<0, 0, 0>>
    /\ matrixWorld = [pos |-> <<0, 0, 0>>, yaw |-> 0]
    /\ roll = 0
    /\ cameraPos = <<6000, 6000, 20000>>
    /\ cameraLookAt = <<0, 0, 0>>
    /\ controlsEnabled = TRUE
    /\ controlsTarget = <<0, 2000, 0>>
    /\ mouseLeft = "ROTATE"
    /\ winDefined = FALSE
    /\ wasFollowMode = TRUE
    /\ isTransitioning = FALSE
    /\ transitionStartTime = 0
    /\ transitionStartPos = <<0, 0, 0>>
    /\ transitionTargetPos = <<0, 0, 0>>
    /\ now = 0
    /\ cursor = ""
    /\ panHintDisabled = toggleChecked
    /\ speedVal = 0
    /\ headingVal = 0

\* the on-screen keys that are lit when the flags are k
ActiveOf(k) == {actionElement[a] : a \in {x \in Actions : k[x]}}

\* the state before any callback has run; the toggle's initial state is the page's
Construction ==
    /\ ship = "undefined"
    /\ loader = "pending"
    /\ loadingHidden = FALSE
    /\ speed = 0
    /\ rotationSpeed = 0
    /\ keys = noKeys
    /\ active = {}
    /\ toggleChecked \in BOOLEAN
    /\ SceneConstruction

\* the loader's success callback has run
Loaded == ship = "loaded" /\ loader = "loaded" /\ loadingHidden = TRUE

Init == Construction /\ frames = 0 /\ speed0 = 0 /\ held = {}

\* ------------------------------------------------------------ handlers
\* loader.load success callback
LoadSuccess ==
    /\ loader = "pending"
    /\ loader' = "loaded"
    /\ ship' = "loaded"
    /\ loadingHidden' = TRUE
    /\ UNCHANGED <<vessel, cameraState, readouts, history, keys, matrixWorld, mouseLeft,
                   toggleChecked, now, active, cursor, panHintDisabled>>

\* loader.load error callback: console.error(error)
LoadError ==
    /\ loader = "pending"
    /\ loader' = "error"
    /\ UNCHANGED <<ship, loadingHidden, vessel, cameraState, readouts, history, keys,
                   matrixWorld, mouseLeft, toggleChecked, now, active, cursor,
                   panHintDisabled>>

\* updateUIState, given the toggle's new state
updateUIState(checked) == panHintDisabled' = checked

\* window keydown listener
keydown(code) ==
    /\ active' = IF code \in DirectionCodes
                 THEN active \cup {actionElement[codeAction[code]]}
                 ELSE active
    /\ keys' = IF code \in DirectionCodes
               THEN [keys EXCEPT ![codeAction[code]] = TRUE]
               ELSE keys
    /\ IF code = "KeyC"
       THEN toggleChecked' = ~toggleChecked /\ updateUIState(~toggleChecked)
       ELSE UNCHANGED <<toggleChecked, panHintDisabled>>
    /\ IF code \in {"KeyH", "Space"} /\ ~toggleChecked
       THEN mouseLeft' = "PAN" /\ cursor' = "grab"
       ELSE UNCHANGED <<mouseLeft, cursor>>
    /\ UNCHANGED <<loading, vessel, cameraState, readouts, frames, speed0, matrixWorld, now>>

\* window keyup listener
keyup(code) ==
    /\ active' = IF code \in DirectionCodes
                 THEN active \ {actionElement[codeAction[code]]}
                 ELSE active
    /\ keys' = IF code \in DirectionCodes
               THEN [keys EXCEPT ![codeAction[code]] = FALSE]
               ELSE keys
    /\ IF code \in {"KeyH", "Space"}
       THEN mouseLeft' = "ROTATE" /\ cursor' = "default"
       ELSE UNCHANGED <<mouseLeft, cursor>>
    /\ UNCHANGED <<loading, vessel, cameraState, readouts, frames, speed0, matrixWorld, now,
                   toggleChecked, panHintDisabled>>

\* on-screen key: mousedown, touchstart
startAction(action) ==
    /\ keys' = [keys EXCEPT ![action] = TRUE]
    /\ active' = active \cup {actionElement[action]}
    /\ UNCHANGED <<loading, vessel, cameraState, readouts, frames, speed0, matrixWorld, now,
                   toggleChecked, panHintDisabled, mouseLeft, cursor>>
\* endAction that keeps the flag while a keyboard key mapped to it is still down
endActionKeepIfHeld(action) ==
    /\ keys' = IF \E code \in DirectionCodes : codeAction[code] = action /\ code \in held
               THEN keys
               ELSE [keys EXCEPT ![action] = FALSE]
    /\ active' = active \ {actionElement[action]}
    /\ UNCHANGED <<loading, vessel, cameraState, readouts, frames, speed0, matrixWorld, now,
                   toggleChecked, panHintDisabled, mouseLeft, cursor>>

\* on-screen key: mouseup, mouseleave, touchend
endAction(action) ==
    /\ keys' = [keys EXCEPT ![action] = FALSE]
    /\ active' = active \ {actionElement[action]}
    /\ UNCHANGED <<loading, vessel, cameraState, readouts, frames, speed0, matrixWorld, now,
                   toggleChecked, panHintDisabled, mouseLeft, cursor>>

\* toggleChange that also switches the manual controls at once
toggleChangeEager ==
    /\ toggleChecked' = ~toggleChecked
    /\ updateUIState(~toggleChecked)
    /\ controlsEnabled' = toggleChecked
    /\ UNCHANGED <<loading, vessel, readouts, history, matrixWorld, now, keys, active,
                   mouseLeft, cursor, cameraPos, cameraLookAt, controlsTarget, winDefined,
                   wasFollowMode, isTransitioning, transitionStartTime, transitionStartPos,
                   transitionTargetPos>>

\* the user flips #camera-toggle; its change listener runs updateUIState
toggleChange ==
    /\ toggleChecked' = ~toggleChecked
    /\ updateUIState(~toggleChecked)
    /\ UNCHANGED <<loading, vessel, cameraState, readouts, history, matrixWorld, now,
                   keys, active, mouseLeft, cursor>>

Codes == DirectionCodes \cup {"KeyC", "KeyH", "Space"}

KeyDown == \E code \in Codes : keydown(code) /\ UNCHANGED held

KeyUp == \E code \in Codes : keyup(code) /\ UNCHANGED held

StartAction == \E action \in Actions : startAction(action) /\ UNCHANGED held

EndAction == \E action \in Actions : endAction(action) /\ UNCHANGED held

\* ------------------------------------------------------------ animate
\* updatePhysics past its readiness guard; mw is shipGroup.matrixWorld as render() left it
physicsStep(mw) ==
    LET s == NextSpeed(speed, keys)
        r == NextRotationSpeed(rotationSpeed, speed, keys)
        y == yaw + r
        p == TranslateZ(position, y, -s)
        c == CameraStep(Camera, toggleChecked, mw, p, now)
    IN  /\ speed' = s
        /\ rotationSpeed' = r
        /\ yaw' = y
        /\ position' = p
        /\ roll' = NextRoll(roll, r)
        /\ winDefined' = TRUE
        /\ cameraPos' = c.cameraPos
        /\ cameraLookAt' = c.cameraLookAt
        /\ controlsEnabled' = c.controlsEnabled
        /\ controlsTarget' = c.controlsTarget
        /\ wasFollowMode' = c.wasFollowMode
        /\ isTransitioning' = c.isTransitioning
        /\ transitionStartTime' = c.transitionStartTime
        /\ transitionStartPos' = c.transitionStartPos
        /\ transitionTargetPos' = c.transitionTargetPos
        /\ speedVal' = SpeedText(s)
        /\ headingVal' = HeadingText(y)

\* updatePhysics without its readiness guard
updatePhysicsUnguarded(mw) == physicsStep(mw)

\* updatePhysics: "if (!ship) return;" and the rest
updatePhysics(mw) ==
    IF ship = "undefined"
    THEN UNCHANGED <<vessel, cameraState, readouts>>
    ELSE physicsStep(mw)

\* animate: render() refreshes the world matrices, then updatePhysics()
animate ==
    LET mw == [pos |-> position, yaw |-> yaw]
    IN  /\ matrixWorld' = mw
        /\ updatePhysics(mw)
        /\ UNCHANGED <<loading, keys, mouseLeft, toggleChecked, now, active, cursor,
                       panHintDisabled>>

\* the clock read by performance.now() moves on
Tick ==
    /\ now < MaxNow
    /\ now' = now + ClockStep
    /\ UNCHANGED <<loading, vessel, cameraState, readouts, history, keys, matrixWorld,
                   mouseLeft, toggleChecked, active, cursor, panHintDisabled>>

\* ------------------------------------------------------ specification
\* a frame of the bounded run
Frame == frames < MaxFrames /\ animate /\ frames' = frames + 1 /\ UNCHANGED <<speed0, held>>

Next ==
    \/ LoadSuccess
    \/ LoadError
    \/ KeyDown
    \/ KeyUp
    \/ StartAction
    \/ EndAction
    \/ toggleChange
    \/ Tick
    \/ Frame

Spec == Init /\ [][Next]_vars

\* --------------------------------------- one frame from any vessel state
\* frames a run of SpecVessel executes
MaxVesselFrames == 1

\* how far around each critical speed the sampled speeds reach
SampleWidth == 6

\* every speed of the grid inside the clamp range
SpeedRange == (-(maxSpeed \div 2)) .. maxSpeed

\* the speeds around the clamps, the stop, and the knee of turnInfluence (0.1 maxSpeed),
\* and every quarter of maxSpeed in between
SpeedSamples ==
    LET critical == {-(maxSpeed \div 2), -(maxSpeed \div 10), 0, maxSpeed \div 10, maxSpeed}
    IN  {s \in SpeedRange : \/ \E c \in critical : Abs(s - c) <= SampleWidth
                            \/ s % (maxSpeed \div 4) = 0}

\* yaw rates around the places where Turning and ClampRotation change behaviour
RotSamples ==
    LET pos == {1, 40, 84, 85, 399, 400, 401, 484, 485, 8000, 15601, 15966, 15999, 16000}
    IN  {0} \cup pos \cup {-r : r \in pos}

AllKeys == [forward : BOOLEAN, backward : BOOLEAN, left : BOOLEAN, right : BOOLEAN]

\* the vessel under way with the flags as the handlers left them; the camera follows
VesselInit ==
    /\ Loaded
    /\ speed \in SpeedSamples
    /\ rotationSpeed \in RotSamples
    /\ keys \in AllKeys
    /\ active = ActiveOf(keys)
    /\ toggleChecked = TRUE
    /\ SceneConstruction
    /\ frames = 0
    /\ speed0 = speed
    /\ held = active

VesselFrame == frames < MaxVesselFrames /\ animate /\ frames' = frames + 1 /\ UNCHANGED <<speed0, held>>

SpecVessel == VesselInit /\ [][VesselFrame]_vars

\* ----------------------------------------------- flags held over many frames
\* frames a run of SpecHeld executes
MaxHeldFrames == 205

forwardHeld == [noKeys EXCEPT !.forward = TRUE]

\* either all flags released at a sampled speed, or forward held from rest
HeldInit ==
    /\ Loaded
    /\ rotationSpeed = 0
    /\ \/ keys = noKeys /\ speed \in SpeedSamples
       \/ keys = forwardHeld /\ speed = 0
    /\ active = ActiveOf(keys)
    /\ toggleChecked = TRUE
    /\ SceneConstruction
    /\ frames = 0
    /\ speed0 = speed
    /\ held = active

HeldFrame == frames < MaxHeldFrames /\ animate /\ frames' = frames + 1 /\ UNCHANGED <<speed0, held>>

SpecHeld == HeldInit /\ [][HeldFrame]_vars

\* ------------------------------------------- all flags released for good
\* frames a run of SpecCoast executes
MaxCoastFrames == 202

\* speeds and yaw rates from which the coasting runs start
CoastSpeedSamples == {-(maxSpeed \div 2), -3, 0, 1, maxSpeed}

CoastRotSamples == {-maxRotationSpeed, -300, 0, 300, maxRotationSpeed}

CoastInit ==
    /\ Loaded
    /\ keys = noKeys
    /\ speed \in CoastSpeedSamples
    /\ rotationSpeed \in CoastRotSamples
    /\ active = {}
    /\ toggleChecked = TRUE
    /\ SceneConstruction
    /\ frames = 0
    /\ speed0 = speed
    /\ held = active

CoastFrame == frames < MaxCoastFrames /\ animate /\ frames' = frames + 1 /\ UNCHANGED <<speed0, held>>

\* requestAnimationFrame keeps calling animate
SpecCoast == CoastInit /\ [][CoastFrame]_vars /\ WF_vars(CoastFrame)

\* ------------------------------------------------ a turn held at rest
\* frames a run of SpecTurn executes
MaxTurnFrames == 1460

leftHeld == [noKeys EXCEPT !.left = TRUE]

rightHeld == [noKeys EXCEPT !.right = TRUE]

\* the ship lies still and one of the turn flags stays set
TurnInit ==
    /\ Loaded
    /\ speed = 0
    /\ rotationSpeed = 0
    /\ keys \in {leftHeld, rightHeld}
    /\ active = ActiveOf(keys)
    /\ toggleChecked = TRUE
    /\ SceneConstruction
    /\ frames = 0
    /\ speed0 = 0
    /\ held = active

TurnFrame == frames < MaxTurnFrames /\ animate /\ frames' = frames + 1 /\ UNCHANGED <<speed0, held>>

SpecTurn == TurnInit /\ [][TurnFrame]_vars

\* ------------------------------------------------ the camera-mode machine
\* frames a run of SpecCamera executes
MaxCameraFrames == 4

\* clock (ms) up to which SpecCamera lets time pass
MaxCameraNow == 2250

leftForwardHeld == [noKeys EXCEPT !.forward = TRUE, !.left = TRUE]

\* the ship is loaded; it lies still or runs ahead turning to port
CameraInit ==
    /\ Loaded
    /\ speed = 0
    /\ rotationSpeed = 0
    /\ keys \in {noKeys, leftForwardHeld}
    /\ active = ActiveOf(keys)
    /\ toggleChecked \in BOOLEAN
    /\ SceneConstruction
    /\ frames = 0
    /\ speed0 = 0
    /\ held = active

CameraCodes == {"KeyC", "KeyH", "Space"}

CameraKeyDown == \E code \in CameraCodes : keydown(code) /\ UNCHANGED held

CameraKeyUp == \E code \in CameraCodes : keyup(code) /\ UNCHANGED held

CameraTick ==
    /\ now < MaxCameraNow
    /\ now' = now + ClockStep
    /\ UNCHANGED <<loading, vessel, cameraState, readouts, history, keys, matrixWorld,
                   mouseLeft, toggleChecked, active, cursor, panHintDisabled>>

CameraFrame == frames < MaxCameraFrames /\ animate /\ frames' = frames + 1 /\ UNCHANGED <<speed0, held>>

CameraNext ==
    \/ CameraKeyDown
    \/ CameraKeyUp
    \/ toggleChange
    \/ CameraTick
    \/ CameraFrame

SpecCamera == CameraInit /\ [][CameraNext]_vars

\* --------------------------------- the flags under every input source
\* the keyboard codes and the on-screen key that write flag a
sourcesOf(a) == {code \in DirectionCodes : codeAction[code] = a} \cup {actionElement[a]}

\* a direction key goes down (or repeats while it is down)
InputKeyDown == \E code \in DirectionCodes : keydown(code) /\ held' = held \cup {code}

\* a direction key goes up
InputKeyUp == \E code \in DirectionCodes : keyup(code) /\ held' = held \ {code}

\* mousedown or touchstart on an on-screen key
InputStart ==
    \E action \in Actions : startAction(action) /\ held' = held \cup {actionElement[action]}

\* mouseup, touchend, or the pointer leaving an on-screen key, pressed or not
InputEnd ==
    \E action \in Actions : endAction(action) /\ held' = held \ {actionElement[action]}

InputNext ==
    \/ InputKeyDown
    \/ InputKeyUp
    \/ InputStart
    \/ InputEnd

SpecInput == Init /\ [][InputNext]_vars

\* ------------------------------------------------------------- claims
\* a step that is one executed per-frame update (the ship is loaded)
ExecutedFrame == ship = "loaded" /\ frames' = frames + 1

\* C1: after every executed per-frame update, whatever the flags and the speed before
\* it, -maxSpeed/2 <= speed <= maxSpeed.
C1_SpeedClamped == frames > 0 => (-(maxSpeed \div 2) <= speed /\ speed <= maxSpeed)

\* a frame that started at top speed with forward set, where only the clamp holds it
C1_Witness == frames > 0 /\ speed0 = maxSpeed /\ keys.forward /\ speed = maxSpeed

\* C2: after every executed per-frame update, whatever the flags and the speed,
\* -maxRotationSpeed <= rotationSpeed <= maxRotationSpeed.
C2_YawRateClamped ==
    frames > 0 => (-maxRotationSpeed <= rotationSpeed /\ rotationSpeed <= maxRotationSpeed)

\* a port turn at top speed from a yaw rate within one step of the limit
C2_Witness ==
    frames > 0 /\ keys.left /\ speed = maxSpeed /\ rotationSpeed = maxRotationSpeed

\* C6 (as amended): in a frame whose speed after the longitudinal update is 0, with the
\* left flag set and the yaw rate below maxRotationSpeed, the yaw rate strictly
\* increases: by rotationAcceleration x 0.1, or up to maxRotationSpeed when less than
\* that is left below the limit.
C6_SteerableAtRest ==
    [][(ExecutedFrame /\ keys.left /\ speed' = 0 /\ rotationSpeed < maxRotationSpeed)
        => /\ rotationSpeed' > rotationSpeed
           /\ rotationSpeed' = Min(rotationSpeed + rotationAcceleration \div 10,
                                   maxRotationSpeed)]_vars

\* C6 as stated: the increase is rotationAcceleration x 0.1 in every such frame
C6_Original ==
    [][(ExecutedFrame /\ keys.left /\ speed' = 0 /\ rotationSpeed < maxRotationSpeed)
        => rotationSpeed' = rotationSpeed + rotationAcceleration \div 10]_vars

\* at rest with left held, one frame has raised the yaw rate from 0 by a tenth of
\* rotationAcceleration
C6_Witness ==
    /\ frames = 1
    /\ keys.left
    /\ speed0 = 0
    /\ speed = 0
    /\ rotationSpeed = rotationAcceleration \div 10
    /\ yaw = rotationSpeed

\* the least integer not below a / b (a >= 0, b > 0)
CeilDiv(a, b) == (a + b - 1) \div b

\* C3: from a nonzero speed speed0 in the clamp range, with neither forward nor backward
\* set in any frame, in every frame |speed| does not increase, speed never takes the
\* sign opposite to speed0, and speed is 0 from frame ceil(|speed0| / deceleration) on.
C3_CoastToZero ==
    [][(ExecutedFrame /\ ~keys.forward /\ ~keys.backward)
        => /\ Abs(speed') <= Abs(speed)
           /\ speed' * speed0 >= 0
           /\ (frames' >= CeilDiv(Abs(speed0), deceleration) => speed' = 0)]_vars

\* the example: from speed 1.0 the vessel is at rest after 100 frames
C3_Witness ==
    /\ keys = noKeys
    /\ speed0 = maxSpeed \div 2
    /\ frames = 100
    /\ speed = 0

\* C7: from rest with forward set in every frame, the speed after n frames is
\* min(n x acceleration, maxSpeed); it is maxSpeed from frame 100 on and at no frame
\* before.
C7_ForwardRamp ==
    (keys.forward /\ speed0 = 0)
        => /\ speed = Min(frames * acceleration, maxSpeed)
           /\ (speed = maxSpeed <=> frames >= 100)

\* forward held for more than 100 frames, the speed resting on the clamp
C7_Witness == keys.forward /\ speed0 = 0 /\ frames = 101 /\ speed = maxSpeed

\* C10: with all four flags false in every frame, eventually speed and yaw rate are
\* both 0 for good; and in every frame that starts with both at 0 they stay 0 and
\* the vessel's yaw and position do not change.
C10_ZeroInputConverges ==
    /\ (keys = noKeys) => <>[](speed = 0 /\ rotationSpeed = 0)
    /\ [][(ExecutedFrame /\ keys = noKeys /\ speed = 0 /\ rotationSpeed = 0)
           => (speed' = 0 /\ rotationSpeed' = 0 /\ yaw' = yaw /\ position' = position)]_vars

\* a vessel that was moving and turning has come to rest and frames keep running
C10_Witness ==
    /\ keys = noKeys
    /\ speed0 # 0
    /\ yaw # 0
    /\ position # <<0, 0, 0>>
    /\ speed = 0
    /\ rotationSpeed = 0
    /\ frames = MaxCoastFrames

\* C4: from Follow, toggling away and back before the 1500 ms transition has completed
\* (any number of frames between the toggles) and then one frame leaves the controller
\* in Follow: controls.enabled = false, isTransitioning = false, wasFollowMode = true.
\* Stated for every frame that starts with the toggle checked in Follow or in a
\* running transition.
C4_ToggleBackToFollow ==
    [][(ExecutedFrame /\ toggleChecked /\ winDefined /\ (isTransitioning \/ wasFollowMode))
        => (~isTransitioning' /\ wasFollowMode' /\ ~controlsEnabled')]_vars

\* Follow frame, toggle, frame entering the transition, toggle back within 1500 ms,
\* frame: the start position is a camera position the follow easing had produced
C4_Witness ==
    /\ frames = 3
    /\ toggleChecked
    /\ wasFollowMode
    /\ ~isTransitioning
    /\ ~controlsEnabled
    /\ transitionTargetPos # <<0, 0, 0>>
    /\ transitionStartPos # <<6000, 6000, 20000>>
    /\ now - transitionStartTime < duration

C8_NoOpUntilLoaded ==
    [][/\ (ship = "undefined" /\ frames' = frames + 1) => UNCHANGED <<vessel, cameraState>>
       /\ (loader = "error") => (loader' = "error" /\ ship' = "undefined")]_vars

\* loading has failed, flags are set, the toggle is off, a frame has run: nothing moved
C8_Witness ==
    /\ loader = "error"
    /\ ship = "undefined"
    /\ frames >= 1
    /\ keys.forward
    /\ keys.left
    /\ ~toggleChecked
    /\ speed = 0
    /\ rotationSpeed = 0
    /\ ~winDefined
    /\ controlsEnabled

\* a step of one of the input event handlers
HandlerStep == KeyDown \/ KeyUp \/ StartAction \/ EndAction \/ toggleChange

\* C9 as stated: the handlers write nothing but the four flags and the toggle; in
\* particular none changes the manual-control configuration
C9_Original ==
    [][HandlerStep => UNCHANGED <<vessel, cameraState, mouseLeft>>]_vars

\* C9 (as amended): every input handler writes only the four flags, the toggle (with
\* its hint) or, for the pan key, controls.mouseButtons.LEFT and the cursor; none
\* changes the vessel state, the camera position, the transition state,
\* controls.enabled or controls.target, which only the per-frame update changes.
C9_HandlersWriteFlagsOnly ==
    [][/\ HandlerStep => UNCHANGED <<vessel, cameraState, loading, readouts, matrixWorld, now>>
       /\ (~UNCHANGED <<vessel, cameraState>>) => ExecutedFrame]_vars

\* handlers have set a flag, flipped the toggle off and switched to pan, no frame yet
C9_Witness ==
    /\ frames = 0
    /\ keys.forward
    /\ ~toggleChecked
    /\ ~panHintDisabled
    /\ mouseLeft = "PAN"
    /\ "key-w" \in active
    /\ speed = 0
    /\ controlsEnabled

\* C11: every frame executed with the follow toggle checked, whatever the camera state
\* before it, ends in Follow: isTransitioning = false, wasFollowMode = true, manual
\* controls disabled, the camera moved by the follow easing (5 % of the way to the
\* follow offset in the ship's frame) and the captured transition values left alone;
\* and the next frame executed with the toggle unchecked starts a fresh transition
\* from the camera's position at the current time.
C11_FollowIsImmediate ==
    [][/\ (ExecutedFrame /\ toggleChecked)
           => /\ ~isTransitioning'
              /\ wasFollowMode'
              /\ ~controlsEnabled'
              /\ cameraPos' = Lerp(cameraPos,
                                   ApplyMatrix4(relativeCameraOffset,
                                                [pos |-> position, yaw |-> yaw]), 5, 100)
              /\ cameraLookAt' = position'
              /\ UNCHANGED <<transitionStartTime, transitionStartPos, transitionTargetPos>>
       /\ (ExecutedFrame /\ ~toggleChecked /\ wasFollowMode)
           => /\ isTransitioning'
              /\ ~wasFollowMode'
              /\ transitionStartTime' = now
              /\ transitionStartPos' = cameraPos]_vars

\* a transition has completed (the orbit target was synchronised to the ship), and a
\* later frame with the toggle checked has put the controller back in Follow
C11_Witness ==
    /\ toggleChecked
    /\ wasFollowMode
    /\ ~isTransitioning
    /\ ~controlsEnabled
    /\ controlsTarget # <<0, 2000, 0>>
    /\ now - transitionStartTime >= duration
    /\ cameraPos # transitionTargetPos

C13_FreeControlsEnabled ==
    [][(ExecutedFrame /\ ~toggleChecked)
        => /\ ~isTransitioning' => controlsEnabled'
           /\ (winDefined /\ ~wasFollowMode /\ ~isTransitioning) => cameraPos' = cameraPos]_vars

\* the end of a frame that completed a transition begun in Follow: the mode is Free,
\* the camera is on the target, and the manual controls are still disabled
C13_Witness ==
    /\ winDefined
    /\ ~toggleChecked
    /\ ~isTransitioning
    /\ ~wasFollowMode
    /\ cameraPos = transitionTargetPos
    /\ ~controlsEnabled

\* C14: after any frame, for any reachable yaw, positive or negative and over any
\* number of full turns, the heading written to the readout is a number h with
\* 0 <= h < 360.
C14_HeadingInRange == frames > 0 => (0 <= headingVal /\ headingVal < 360)

\* the left flag held from rest has turned the ship through almost four full turns
\* and the readout shows 360
C14_Witness == keys.left /\ yaw > 3 * 5026548 /\ headingVal = 360

\* C15: in every frame in which neither the left nor the right flag is set, the new yaw
\* rate never has the sign opposite to the old one and its magnitude is never larger
\* than the old magnitude, small yaw rates below rotationDeceleration included.
C15_YawRateDecays ==
    [][(ExecutedFrame /\ ~keys.left /\ ~keys.right)
        => /\ rotationSpeed' * rotationSpeed >= 0
           /\ Abs(rotationSpeed') <= Abs(rotationSpeed)]_vars

\* one frame without turn flags has taken the yaw rate from -0.00005 (one frame of
\* right rudder at rest) to +0.0004275, and the ship has turned to port by it
C15_Witness ==
    /\ frames = 1
    /\ ~keys.left
    /\ ~keys.right
    /\ rotationSpeed = ((rotationDeceleration - rotationAcceleration \div 10) * rotationDamping) \div 100
    /\ yaw = rotationSpeed

\* C16: the transition start time, start position and target position are written only
\* in a frame that detects the switch away from Follow (toggle unchecked, latch true),
\* where they take the current time, the camera position and the target offset in the
\* ship's frame; every other step, the later frames of the same episode with the ship
\* moving and turning included, leaves all three as captured.
C16_CapturedAtEntryOnly ==
    [][/\ (~UNCHANGED <<transitionStartTime, transitionStartPos, transitionTargetPos>>)
           => (ExecutedFrame /\ ~toggleChecked /\ wasFollowMode)
       /\ (ExecutedFrame /\ ~toggleChecked /\ wasFollowMode)
           => /\ transitionStartTime' = now
              /\ transitionStartPos' = cameraPos
              /\ transitionTargetPos' = ApplyMatrix4(relativeTargetOffset,
                                                     [pos |-> position, yaw |-> yaw])
       /\ (ExecutedFrame /\ isTransitioning)
           => UNCHANGED <<transitionStartTime, transitionStartPos, transitionTargetPos>>]_vars

\* three frames into an episode entered at the construction pose, the ship under way
\* and turning: the target is still the one of the entry frame, not the offset from
\* where the ship is now
C16_Witness ==
    /\ frames = 4
    /\ keys = leftForwardHeld
    /\ isTransitioning
    /\ now - transitionStartTime = ClockStep
    /\ yaw # 0
    /\ position # <<0, 0, 0>>
    /\ transitionStartPos = <<6000, 6000, 20000>>
    /\ transitionTargetPos = <<0, 12000, 30000>>
    /\ transitionTargetPos # ApplyMatrix4(relativeTargetOffset, [pos |-> position, yaw |-> yaw])

\* C17: the turn follows the sign of the speed the same frame has just computed and
\* clamped: with that speed > 0 the left flag raises the yaw rate and the right flag
\* lowers it by rotationAcceleration x max(|speed| / maxSpeed, 0.1); with that speed
\* < 0 left lowers and right raises it by the same amount; the result is then clamped
\* to +-maxRotationSpeed.
C17_TurnFollowsNewSpeed ==
    [][ExecutedFrame
        => LET step == (rotationAcceleration
                          * Max((Abs(speed') * 10000) \div maxSpeed, 1000)) \div 10000
               raised == Min(rotationSpeed + step, maxRotationSpeed)
               lowered == Max(rotationSpeed - step, -maxRotationSpeed)
           IN  /\ (keys.left /\ speed' > 0) => rotationSpeed' = raised
               /\ (keys.right /\ ~keys.left /\ speed' > 0) => rotationSpeed' = lowered
               /\ (keys.left /\ speed' < 0) => rotationSpeed' = lowered
               /\ (keys.right /\ ~keys.left /\ speed' < 0) => rotationSpeed' = raised]_vars

\* backward and left set on a ship creeping ahead: the frame takes the speed below
\* zero and the left flag turns the ship to starboard
C17_Witness ==
    /\ frames = 1
    /\ keys.backward
    /\ ~keys.forward
    /\ keys.left
    /\ speed0 > 0
    /\ speed < 0
    /\ rotationSpeed = -(rotationAcceleration \div 10)
    /\ yaw = rotationSpeed

\* C18: opposite flags set together are resolved for forward and for left: a frame with
\* forward and backward both set changes the speed exactly as the same frame with only
\* forward set (speed + acceleration, clamped), and a frame with left and right both
\* set changes the yaw rate exactly as the same frame with only left set.
C18_ForwardLeftPrecedence ==
    [][ExecutedFrame
        => LET step == (rotationAcceleration
                          * Max((Abs(speed') * 10000) \div maxSpeed, 1000)) \div 10000
           IN  /\ (keys.forward /\ keys.backward)
                   => /\ speed' = NextSpeed(speed, [keys EXCEPT !.backward = FALSE])
                      /\ speed' = Min(speed + acceleration, maxSpeed)
               /\ (keys.left /\ keys.right)
                   => /\ rotationSpeed' = NextRotationSpeed(rotationSpeed, speed,
                                                            [keys EXCEPT !.right = FALSE])
                      /\ rotationSpeed' = IF speed' >= 0
                                          THEN Min(rotationSpeed + step, maxRotationSpeed)
                                          ELSE Max(rotationSpeed - step, -maxRotationSpeed)]_vars

\* all four flags set at rest: one frame later the ship runs ahead and turns to port
C18_Witness ==
    /\ frames = 1
    /\ keys.forward /\ keys.backward /\ keys.left /\ keys.right
    /\ speed0 = 0
    /\ speed = acceleration
    /\ rotationSpeed = rotationAcceleration \div 10
    /\ yaw = rotationSpeed

\* C19: the pan override is never in effect in Follow mode: a step taken with the
\* follow toggle checked and left checked (a press of the pan key included) leaves the
\* left-button mapping at ROTATE, and no reachable state has the toggle checked, the
\* left-button mapping at PAN and the manual controls enabled.
C19_NoPanInFollow ==
    [][/\ (toggleChecked /\ toggleChecked' /\ mouseLeft = "ROTATE") => mouseLeft' = "ROTATE"
       /\ ~(toggleChecked' /\ mouseLeft' = "PAN" /\ controlsEnabled')]_vars

\* Free mode with the controls enabled, the pan key held, and the toggle checked again
\* before the next frame
C19_Witness ==
    /\ winDefined
    /\ ~wasFollowMode
    /\ ~isTransitioning
    /\ toggleChecked
    /\ mouseLeft = "PAN"
    /\ cursor = "grab"
    /\ controlsEnabled

\* C20: each direction flag is last-writer-wins over its three sources (two keyboard
\* codes and one on-screen key): a press from any of them leaves the flag true, a
\* release from any of them leaves it false whatever other sources of the same flag
\* are still held, and the flag changes in no step other than a press or release
\* mapped to it; so the flag always has the polarity of the latest event for it.
C20_LastWriterWins ==
    [][\A a \in Actions :
          /\ (\E s \in sourcesOf(a) : s \in held' /\ s \notin held) => keys'[a]
          /\ (\E s \in sourcesOf(a) : s \in held /\ s \notin held') => ~keys'[a]
          /\ (keys'[a] # keys[a])
                => \/ \E code \in DirectionCodes :
                         codeAction[code] = a /\ (keydown(code) \/ keyup(code))
                   \/ startAction(a)
                   \/ endAction(a)]_vars

\* W and the up arrow are both down, the on-screen W has been pressed and released:
\* the forward flag is false and its on-screen key is dark
C20_Witness ==
    /\ "KeyW" \in held
    /\ "ArrowUp" \in held
    /\ "key-w" \notin held
    /\ ~keys.forward
    /\ "key-w" \notin active

\* C21: whenever isTransitioning = true at the end of a frame, controls.enabled =
\* false, for every initial state of the follow toggle and every interleaving of
\* toggles and frames.
C21_TransitionControlsDisabled ==
    [][(ExecutedFrame /\ isTransitioning') => ~controlsEnabled']_vars

\* the first executed frame found the toggle unchecked: a transition runs from the
\* construction pose while the manual controls are still enabled as constructed
C21_Witness ==
    /\ frames >= 1
    /\ ~toggleChecked
    /\ isTransitioning
    /\ transitionStartPos = <<6000, 6000, 20000>>
    /\ now - transitionStartTime < duration
    /\ controlsEnabled
    /\ mouseLeft = "ROTATE"

====
